---- MODULE Spec2Model ----
(***************************************************************************)
(* Sigma point generators of filterpy/kalman/sigma_points.py:              *)
(* MerweScaledSigmaPoints, JulierSigmaPoints, SimplexSigmaPoints and       *)
(* GeneralizedSigmaPoints.                                                 *)
(*                                                                         *)
(* Numbers.  The code computes in IEEE doubles.  The model computes        *)
(* exactly: a number is a triple <<p, q, r>>                               *)
(*     q > 0          the real number (p/q)*sqrt(r), r squarefree, r >= 1  *)
(*     <<1,0,1>>      +inf        <<-1,0,1>>   -inf       <<0,0,1>>  nan   *)
(*     <<0,0,0>>      a real number that is not of the form (p/q)*sqrt(r)  *)
(* Rounding is not modelled and zero is unsigned.  Every action is guarded *)
(* so that no number of the last kind is ever stored or returned: the      *)
(* inputs are drawn from sets on which the arithmetic stays exact.         *)
(***************************************************************************)
EXTENDS Integers, Sequences, FiniteSets, TLC

\* ------------------------------------------------------------------------
\* Bounds of the model
\* ------------------------------------------------------------------------
\* largest state dimension n
MaxN == 2
\* entries of a mean vector are drawn from 0..MaxX (and one negative value)
MaxX == 2

\* ------------------------------------------------------------------------
\* Exact arithmetic with IEEE special values
\* ------------------------------------------------------------------------
Abs(i) == IF i < 0 THEN -i ELSE i

Sgn(i) == IF i < 0 THEN -1 ELSE IF i = 0 THEN 0 ELSE 1

RECURSIVE Gcd(_, _)
Gcd(a, b) == IF b = 0 THEN a ELSE Gcd(b, a % b)

NaN == <<0, 0, 1>>
PInf == <<1, 0, 1>>
NInf == <<-1, 0, 1>>
Unrep == <<0, 0, 0>>
Zero == <<0, 1, 1>>
One == <<1, 1, 1>>

IsUnrep(a) == a[3] = 0
IsNaN(a) == a[2] = 0 /\ a[1] = 0 /\ a[3] = 1
IsInf(a) == a[2] = 0 /\ a[1] # 0
IsFinite(a) == a[2] > 0
IsZero(a) == a[2] > 0 /\ a[1] = 0

\* (p/q)*sqrt(r) in lowest terms, q # 0, r squarefree
Norm(p, q, r) ==
    IF p = 0 THEN Zero
    ELSE IF q = 1 THEN <<p, 1, r>>
    ELSE LET g == Gcd(Abs(p), Abs(q))
         IN  <<Sgn(q) * (p \div g), Abs(q) \div g, r>>

\* the rational p/q
Q(p, q) == Norm(p, q, 1)
\* the integer i
N(i) == Q(i, 1)

SignedInf(s) == IF s < 0 THEN NInf ELSE PInf

Neg(a) == <<-a[1], a[2], a[3]>>

Add(a, b) ==
    IF a[2] > 0 /\ b[2] > 0
    THEN (IF a[1] = 0 THEN b
          ELSE IF b[1] = 0 THEN a
          ELSE IF a[3] = b[3]
               THEN Norm(a[1] * b[2] + b[1] * a[2], a[2] * b[2], a[3])
          ELSE Unrep)
    ELSE IF IsUnrep(a) \/ IsUnrep(b) THEN Unrep
    ELSE IF IsNaN(a) \/ IsNaN(b) THEN NaN
    ELSE IF IsInf(a) /\ IsInf(b) THEN (IF a = b THEN a ELSE NaN)
    ELSE IF IsInf(a) THEN a
    ELSE b

Sub(a, b) == Add(a, Neg(b))

Mul(a, b) ==
    IF a[2] > 0 /\ b[2] > 0
    THEN (IF a[1] = 0 \/ b[1] = 0 THEN Zero
          ELSE IF a[3] = 1 /\ b[3] = 1 THEN Norm(a[1] * b[1], a[2] * b[2], 1)
          ELSE LET g == Gcd(a[3], b[3])
               IN  Norm(a[1] * b[1] * g, a[2] * b[2],
                        (a[3] \div g) * (b[3] \div g)))
    ELSE IF IsUnrep(a) \/ IsUnrep(b) THEN Unrep
    ELSE IF IsNaN(a) \/ IsNaN(b) THEN NaN
    ELSE IF IsZero(a) \/ IsZero(b) THEN NaN
    ELSE SignedInf(Sgn(a[1]) * Sgn(b[1]))

\* IEEE division: x/0 is +-inf, 0/0 is nan, nothing is raised
Div(a, b) ==
    IF a[2] > 0 /\ b[2] > 0 /\ b[1] # 0
    THEN (IF a[1] = 0 THEN Zero
          ELSE Mul(a, <<Sgn(b[1]) * b[2], Abs(b[1]) * b[3], b[3]>>))
    ELSE IF IsUnrep(a) \/ IsUnrep(b) THEN Unrep
    ELSE IF IsNaN(a) \/ IsNaN(b) THEN NaN
    ELSE IF IsInf(b) THEN (IF IsInf(a) THEN NaN ELSE Zero)
    ELSE IF IsZero(b) THEN (IF IsZero(a) THEN NaN ELSE SignedInf(Sgn(a[1])))
    ELSE IF IsInf(a) THEN SignedInf(Sgn(a[1]) * Sgn(b[1]))
    ELSE Mul(a, Norm(b[2], b[1] * b[3], b[3]))

\* the largest p with p*p dividing m (m >= 1), searched upward from p
RECURSIVE SqPartFrom(_, _)
SqPartFrom(m, p) ==
    IF p * p > m THEN 1
    ELSE IF m % (p * p) = 0 THEN p * SqPartFrom(m \div (p * p), p)
    ELSE SqPartFrom(m, p + 1)

SqPart(m) == SqPartFrom(m, 2)

\* np.sqrt of one number: nan for a negative argument, nothing is raised
Sqrt(a) ==
    IF IsUnrep(a) THEN Unrep
    ELSE IF IsNaN(a) THEN NaN
    ELSE IF IsInf(a) THEN (IF a = PInf THEN PInf ELSE NaN)
    ELSE IF a[1] < 0 THEN NaN
    ELSE IF a[1] = 0 THEN Zero
    ELSE IF a[3] # 1 THEN Unrep
    ELSE LET p == SqPart(a[1])
             q == SqPart(a[2])
             u == a[1] \div (p * p)
             v == a[2] \div (q * q)
         IN  Norm(p, q * v, u * v)

\* a < b for two numbers; False when either is nan
Less(a, b) ==
    IF IsNaN(a) \/ IsNaN(b) \/ IsUnrep(a) \/ IsUnrep(b) THEN FALSE
    ELSE IF a = b THEN FALSE
    ELSE IF a = NInf \/ b = PInf THEN TRUE
    ELSE IF a = PInf \/ b = NInf THEN FALSE
    ELSE IF Sgn(a[1]) # Sgn(b[1]) THEN Sgn(a[1]) < Sgn(b[1])
    ELSE LET sa == a[1] * a[1] * a[3] * b[2] * b[2]
             sb == b[1] * b[1] * b[3] * a[2] * a[2]
         IN  IF a[1] > 0 THEN sa < sb ELSE sb < sa

\* ------------------------------------------------------------------------
\* Vectors (sequences of numbers) and matrices (sequences of rows)
\* ------------------------------------------------------------------------
\* the sequence <<F(1), ..., F(m)>>, each entry computed once
Vec(m, F(_)) == [i \in 1..m |-> F(i)] \o <<>>

RECURSIVE SumTo(_, _)
SumTo(f, m) == IF m = 0 THEN Zero ELSE Add(SumTo(f, m - 1), f[m])

\* np.sum of a vector
Sum(v) == SumTo(v, Len(v))

\* np.min of a vector: nan when any entry is nan
RECURSIVE MinTo(_, _)
MinTo(v, m) ==
    IF m = 1 THEN v[1]
    ELSE LET r == MinTo(v, m - 1)
         IN  IF IsUnrep(r) \/ IsUnrep(v[m]) THEN Unrep
             ELSE IF IsNaN(r) \/ IsNaN(v[m]) THEN NaN
             ELSE IF Less(v[m], r) THEN v[m] ELSE r

Min(v) == MinTo(v, Len(v))

VSub(a, b) == Vec(Len(a), LAMBDA i : Sub(a[i], b[i]))
VAdd(a, b) == Vec(Len(a), LAMBDA i : Add(a[i], b[i]))
VNeg(a) == Vec(Len(a), LAMBDA i : Neg(a[i]))
VScale(c, a) == Vec(Len(a), LAMBDA i : Mul(c, a[i]))
VDiv(a, b) == Vec(Len(a), LAMBDA i : Div(a[i], b[i]))
VSqrt(a) == Vec(Len(a), LAMBDA i : Sqrt(a[i]))

\* M[:, j] with the 1-based column j
Col(M, j) == Vec(Len(M), LAMBDA i : M[i][j])
Transpose(M) == Vec(Len(M[1]), LAMBDA j : Col(M, j))
MScale(c, M) == Vec(Len(M), LAMBDA i : VScale(c, M[i]))
\* A.dot(B)
Dot(A, B) ==
    Vec(Len(A), LAMBDA i :
        Vec(Len(B[1]), LAMBDA j :
            Sum(Vec(Len(B), LAMBDA k : Mul(A[i][k], B[k][j])))))

\* np.eye(n) * p
Eye(n, p) == Vec(n, LAMBDA i : Vec(n, LAMBDA j : IF i = j THEN p ELSE Zero))

RepVec(v) == \A i \in 1..Len(v) : ~IsUnrep(v[i])
RepMat(M) == \A i \in 1..Len(M) : RepVec(M[i])
FiniteVec(v) == \A i \in 1..Len(v) : IsFinite(v[i])

\* ------------------------------------------------------------------------
\* Arguments as Python values
\* ------------------------------------------------------------------------
\* A mean is [kind, v]: kind "scalar" (a Python number, v has one entry),
\* "list" (a Python list), "ndarray", or "None" (v empty).
NoneX == [kind |-> "None", v |-> <<>>]

\* np.size(x)
np_size(x) == IF x.kind = "None" THEN 1 ELSE Len(x.v)

\* if np.isscalar(x): x = np.asarray([x])
AsArray(x) == IF x.kind = "scalar" THEN [kind |-> "ndarray", v |-> x.v] ELSE x

\* A covariance is [kind, v]: kind "scalar" (a Python number, held as the
\* 1x1 matrix v) or "matrix".
\* if np.isscalar(P): P = np.eye(n)*P   else: P = np.atleast_2d(P)
AsMatrix(n, P) == IF P.kind = "scalar" THEN Eye(n, P.v[1][1]) ELSE P.v

\* scipy.linalg.cholesky(A): the upper triangular U with U^T U = A, computed
\* row by row; LinAlgError when a pivot is not positive.  Rows(A, U) extends
\* the rows U already computed.
CholPivot(A, U, j) ==
    Sub(A[j][j], Sum(Vec(Len(U), LAMBDA k : Mul(U[k][j], U[k][j]))))

CholRow(A, U, j) ==
    LET d == Sqrt(CholPivot(A, U, j))
    IN  Vec(Len(A), LAMBDA i :
            IF i < j THEN Zero
            ELSE IF i = j THEN d
            ELSE Div(Sub(A[j][i],
                         Sum(Vec(Len(U), LAMBDA k : Mul(U[k][j], U[k][i])))), d))

RECURSIVE CholRows(_, _)
CholRows(A, U) ==
    IF Len(U) = Len(A) THEN [exc |-> "none", U |-> U]
    ELSE LET j == Len(U) + 1
             p == CholPivot(A, U, j)
         IN  IF IsUnrep(p) THEN [exc |-> "unrep", U |-> U]
             ELSE IF ~Less(Zero, p) THEN [exc |-> "LinAlgError", U |-> U]
             ELSE CholRows(A, Append(U, CholRow(A, U, j)))

cholesky(A) == CholRows(A, <<>>)

\* ------------------------------------------------------------------------
\* The generator object.  Sequences are 1-based: the code's Wm[i], s[i] and
\* sigmas[i] are Wm[i+1], s[i+1] and sigmas[i+1] here.
\* ------------------------------------------------------------------------
NoGen ==
    [cls |-> "None", n |-> 0, alpha |-> Zero, beta |-> Zero, kappa |-> Zero,
     x |-> NoneX, P |-> <<>>, S |-> <<>>, K |-> <<>>, k |-> Zero,
     positively_constrained |-> FALSE, s |-> <<>>, Wm |-> <<>>, Wc |-> <<>>]

\* np.full(m, c) with entry 0 replaced by c0
FullWithFirst(m, c, c0) == Vec(m, LAMBDA i : IF i = 1 THEN c0 ELSE c)

\* ------------------------------------------------------------------------
\* MerweScaledSigmaPoints
\* ------------------------------------------------------------------------
Merwe_lambda(n, alpha, kappa) ==
    Sub(Mul(Mul(alpha, alpha), Add(N(n), kappa)), N(n))

\* _compute_weights with Wc[0] = lambda_ / (n + lambda_), the term
\* (1 - alpha**2 + beta) left out
Merwe_compute_weights_uncorrected(n, alpha, beta, kappa) ==
    LET lambda_ == Merwe_lambda(n, alpha, kappa)
        den == Add(N(n), lambda_)
        c == Div(Q(1, 2), den)
        Wm0 == Div(lambda_, den)
    IN  IF IsZero(den) THEN [exc |-> "ZeroDivisionError", Wm |-> <<>>, Wc |-> <<>>]
        ELSE [exc |-> "none",
              Wm |-> FullWithFirst(2 * n + 1, c, Wm0),
              Wc |-> FullWithFirst(2 * n + 1, c, Wm0)]

\* _compute_weights: n, alpha, beta, kappa are Python numbers, so a zero
\* n + lambda_ raises ZeroDivisionError
Merwe_compute_weights(n, alpha, beta, kappa) ==
    LET lambda_ == Merwe_lambda(n, alpha, kappa)
        den == Add(N(n), lambda_)
        c == Div(Q(1, 2), den)
        Wc0 == Add(Div(lambda_, den), Add(Sub(One, Mul(alpha, alpha)), beta))
        Wm0 == Div(lambda_, den)
    IN  IF IsZero(den) THEN [exc |-> "ZeroDivisionError", Wm |-> <<>>, Wc |-> <<>>]
        ELSE [exc |-> "none",
              Wm |-> FullWithFirst(2 * n + 1, c, Wm0),
              Wc |-> FullWithFirst(2 * n + 1, c, Wc0)]

\* the loop writing its rows one place early: rows 0..n-1 and n..2n-1, and
\* x left in row 2n
SymmetricSigmas_shifted(n, x, U) ==
    Vec(2 * n + 1, LAMBDA i :
        IF i <= n THEN VSub(x, VNeg(U[i]))
        ELSE IF i <= 2 * n THEN VSub(x, U[i - n])
        ELSE x)

\* rows 0, 1..n, n+1..2n of the symmetric point set around x with spread U
SymmetricSigmas(n, x, U) ==
    Vec(2 * n + 1, LAMBDA i :
        IF i = 1 THEN x
        ELSE IF i <= n + 1 THEN VSub(x, VNeg(U[i - 1]))
        ELSE VSub(x, U[i - 1 - n]))

Merwe_sigma_points(g, x, P) ==
    IF g.n # np_size(x) THEN [exc |-> "ValueError(size)", sigmas |-> <<>>]
    ELSE LET n == g.n
             xv == AsArray(x).v
             Pm == AsMatrix(n, P)
             lambda_ == Merwe_lambda(n, g.alpha, g.kappa)
             ch == cholesky(MScale(Add(lambda_, N(n)), Pm))
         IN  IF ch.exc # "none" THEN [exc |-> ch.exc, sigmas |-> <<>>]
             ELSE [exc |-> "none", sigmas |-> SymmetricSigmas(n, xv, ch.U)]

\* ------------------------------------------------------------------------
\* JulierSigmaPoints
\* ------------------------------------------------------------------------
Julier_compute_weights(n, kappa) ==
    LET den == Add(N(n), kappa)
        Wm == FullWithFirst(2 * n + 1, Div(Q(1, 2), den), Div(kappa, den))
    IN  IF IsZero(den) THEN [exc |-> "ZeroDivisionError", Wm |-> <<>>, Wc |-> <<>>]
        ELSE [exc |-> "none", Wm |-> Wm, Wc |-> Wm]

Julier_sigma_points(g, x, P) ==
    IF g.n # np_size(x) THEN [exc |-> "ValueError(size)", sigmas |-> <<>>]
    ELSE LET xv == AsArray(x).v
             n == Len(xv)
             Pm == AsMatrix(n, P)
             ch == cholesky(MScale(Add(N(n), g.kappa), Pm))
         IN  IF ch.exc # "none" THEN [exc |-> ch.exc, sigmas |-> <<>>]
             ELSE [exc |-> "none", sigmas |-> SymmetricSigmas(n, xv, ch.U)]

\* ------------------------------------------------------------------------
\* SimplexSigmaPoints
\* ------------------------------------------------------------------------
Simplex_compute_weights(n) ==
    LET Wm == Vec(n + 1, LAMBDA i : Div(One, N(n + 1)))
    IN  [exc |-> "none", Wm |-> Wm, Wc |-> Wm]

\* the direction matrix after the loop has run up to dimension d
RECURSIVE Istar(_, _)
Istar(lambda_, d) ==
    IF d = 1
    THEN LET a == Div(One, Sqrt(Mul(N(2), lambda_)))
         IN  << <<Neg(a), a>> >>
    ELSE LET prev == Istar(lambda_, d - 1)
             r == Sqrt(Mul(lambda_, N(d * (d + 1))))
             row == Vec(d + 1, LAMBDA j :
                        IF j = d + 1 THEN Div(N(-d), r) ELSE Div(One, r))
         IN  Append(Vec(Len(prev), LAMBDA i : Append(prev[i], Zero)), row)

\* sigma_points reshaping x before it compares the sizes
Simplex_sigma_points_reshape_first(g, x, P) ==
    IF AsArray(x).kind = "list"
    THEN [exc |-> "AttributeError", sigmas |-> <<>>]
    ELSE IF g.n # np_size(x)
         THEN [exc |-> "ValueError(size)", sigmas |-> <<>>]
    ELSE LET n == g.n
             xv == AsArray(x).v
             Pm == AsMatrix(n, P)
             ch == cholesky(Pm)
             lambda_ == Q(n, n + 1)
             I == MScale(Sqrt(N(n)), Istar(lambda_, n))
             scaled_unitary == Dot(Transpose(ch.U), I)
             sigmas == Vec(n, LAMBDA a :
                          Vec(n + 1, LAMBDA j :
                              Sub(xv[a], Neg(scaled_unitary[a][j]))))
         IN  IF ch.exc # "none" THEN [exc |-> ch.exc, sigmas |-> <<>>]
             ELSE [exc |-> "none", sigmas |-> Transpose(sigmas)]

Simplex_sigma_points(g, x, P) ==
    IF g.n # np_size(x) THEN [exc |-> "ValueError(size)", sigmas |-> <<>>]
    ELSE IF AsArray(x).kind = "list"
         THEN [exc |-> "AttributeError", sigmas |-> <<>>]
    ELSE LET n == g.n
             xv == AsArray(x).v
             Pm == AsMatrix(n, P)
             ch == cholesky(Pm)
             lambda_ == Q(n, n + 1)
             I == MScale(Sqrt(N(n)), Istar(lambda_, n))
             scaled_unitary == Dot(Transpose(ch.U), I)
             sigmas == Vec(n, LAMBDA a :
                          Vec(n + 1, LAMBDA j :
                              Sub(xv[a], Neg(scaled_unitary[a][j]))))
         IN  IF ch.exc # "none" THEN [exc |-> ch.exc, sigmas |-> <<>>]
             ELSE [exc |-> "none", sigmas |-> Transpose(sigmas)]

\* ------------------------------------------------------------------------
\* GeneralizedSigmaPoints
\* ------------------------------------------------------------------------
\* _compute_weights on the fields P, S, K, s: the new s, and w (stored as
\* both Wm and Wc).  s, S_ and w are numpy values: a zero divisor or a
\* negative radicand gives inf or nan and raises nothing.
Generalized_std(P, i) == Sqrt(P[i][i])

\* std**3.0 and std**4.0
Cube(a) == Mul(a, Mul(a, a))
Fourth(a) == Mul(Mul(a, a), Mul(a, a))

Generalized_S_(P, S, i) == Div(S[i], Cube(Generalized_std(P, i)))
Generalized_K_(P, K, i) == Div(K[i], Fourth(Generalized_std(P, i)))

free_parameter(S_, K_) ==
    Mul(Q(1, 2),
        Add(Neg(S_), Sqrt(Sub(Mul(N(4), K_), Mul(N(3), Mul(S_, S_))))))

\* s[1..n]: the free parameters, or the scales that are there
lower_scales(n, P, S, K, s, compute_free_parameter) ==
    Vec(n, LAMBDA i :
        IF compute_free_parameter
        THEN free_parameter(Generalized_S_(P, S, i), Generalized_K_(P, K, i))
        ELSE s[i + 1])

\* s[i+n] = s[i] + S_[i_]
upper_scales(n, P, S, si) ==
    Vec(n, LAMBDA i : Add(si[i], Generalized_S_(P, S, i)))

\* w[i+n] and w[i] from s[i] and s[i+n]
upper_weight(si, sin) == Div(One, Mul(sin, Add(si, sin)))
lower_weight(si, sin) == Mul(Div(sin, si), upper_weight(si, sin))

\* w[0] = 1 - np.sum(w[:n+1]): the weights of the rows n+1..2n left out of
\* the sum
with_first_weight_half_sum(w) ==
    <<Sub(One, Sum(<<Zero>> \o SubSeq(w, 1, Len(w) \div 2)))>> \o w

\* w[0] = 1 - np.sum(w), w[0] being zero in the sum
with_first_weight(w) == <<Sub(One, Sum(<<Zero>> \o w))>> \o w

weights_of(n, si, sin) ==
    Vec(n, LAMBDA i : lower_weight(si[i], sin[i]))
        \o Vec(n, LAMBDA i : upper_weight(si[i], sin[i]))

\* self.Wm = w; self.Wc = w
stored_weights(s, w) == [s |-> s, Wm |-> w, Wc |-> w]

weights_from_scales(n, s0, si, sin) ==
    stored_weights(<<s0>> \o si \o sin, with_first_weight(weights_of(n, si, sin)))

weights_from_lower_scales(n, P, S, s0, si) ==
    weights_from_scales(n, s0, si, upper_scales(n, P, S, si))

Generalized_compute_weights(n, P, S, K, s, compute_free_parameter) ==
    weights_from_lower_scales(n, P, S, s[1],
        lower_scales(n, P, S, K, s, compute_free_parameter))

\* the point-generation loop of sigma_points
Generalized_sigmas(n, xv, P, s) ==
    Vec(2 * n + 1, LAMBDA j :
        IF j = 1 THEN xv
        ELSE IF j <= n + 1
             THEN VSub(xv, VScale(s[j], VSqrt(Col(P, j - 1))))
        ELSE VAdd(xv, VScale(s[j], VSqrt(Col(P, j - 1 - n)))))

\* _redefine_scale_param: rows are scanned in order 0..2n and row i reads
\* column i-1 of sqrt(self.P).  Row 0 reads column -1, the last one; a row
\* i > n reads column i-1 >= n and raises IndexError, after the rows 0..n
\* have been redefined.
NegativeRow(sigmas, j) == Less(Min(sigmas[j]), Zero)

redefined_scale(g, j) ==
    Mul(g.k, Min(VDiv(g.x.v, VSqrt(Col(g.P, IF j = 1 THEN g.n ELSE j - 1)))))

Generalized_redefine_scale_param(g, sigmas) ==
    [exc |-> IF \E j \in (g.n + 2)..(2 * g.n + 1) : NegativeRow(sigmas, j)
             THEN "IndexError" ELSE "none",
     s |-> Vec(2 * g.n + 1, LAMBDA j :
               IF j <= g.n + 1 /\ NegativeRow(sigmas, j)
               THEN redefined_scale(g, j) ELSE g.s[j])]

\* x != self.x as the condition of an if statement: "True", "False", or
\* "ValueError" when the comparison is elementwise and has more than one
\* element (the truth value of such an array is ambiguous).  Two lists are
\* compared as lists; an ndarray against None is elementwise True.
x_differs(x, selfx) ==
    IF x.kind = "list" /\ selfx.kind \in {"list", "None"}
    THEN (IF x.v # selfx.v \/ selfx.kind = "None" THEN "True" ELSE "False")
    ELSE IF Len(x.v) > 1 THEN "ValueError"
    ELSE IF selfx.kind = "None" \/ x.v # selfx.v THEN "True" ELSE "False"

\* sigma_points: the outcome, the returned matrix, the fields s, Wm, Wc as
\* the call leaves them, and the matrix of the first pass.
\* A call that raises exc, leaving the scales s:
sigma_points_raises(g, exc, s, first) ==
    [exc |-> exc, sigmas |-> <<>>, s |-> s, Wm |-> g.Wm, Wc |-> g.Wc,
     first |-> first]

\* the second pass, with the recomputed scales and weights cw
sigma_points_second_pass(n, xv, P, cw, first) ==
    [exc |-> "none", sigmas |-> Generalized_sigmas(n, xv, P, cw.s),
     s |-> cw.s, Wm |-> cw.Wm, Wc |-> cw.Wc, first |-> first]

\* after _redefine_scale_param has given rd
sigma_points_redefined(g, xv, P, first, rd) ==
    IF rd.exc # "none" THEN sigma_points_raises(g, rd.exc, rd.s, first)
    ELSE sigma_points_second_pass(g.n, xv, P,
             Generalized_compute_weights(g.n, g.P, g.S, g.K, rd.s, FALSE),
             first)

\* the first pass followed by the redefinition for every generator, the
\* test of positively_constrained left out
sigma_points_first_pass_always_redefines(g, xv, P, first) ==
    sigma_points_redefined(g, xv, P, first,
        Generalized_redefine_scale_param(g, first))

\* after the first pass has given the matrix first
sigma_points_first_pass(g, xv, P, first) ==
    IF ~g.positively_constrained
    THEN [exc |-> "none", sigmas |-> first, s |-> g.s, Wm |-> g.Wm,
          Wc |-> g.Wc, first |-> first]
    ELSE sigma_points_redefined(g, xv, P, first,
             Generalized_redefine_scale_param(g, first))

\* the two x != self.x checks
sigma_points_compared(g, x, P, differs) ==
    IF differs = "ValueError"
    THEN sigma_points_raises(g, "ValueError(truth)", g.s, <<>>)
    ELSE IF differs = "True" THEN sigma_points_raises(g, "Warning", g.s, <<>>)
    ELSE sigma_points_first_pass(g, x.v, P,
             Generalized_sigmas(g.n, x.v, P, g.s))

\* with x and P made arrays
sigma_points_converted(g, x, P) ==
    sigma_points_compared(g, x, P, x_differs(x, g.x))

Generalized_sigma_points(g, x0, P0) ==
    IF g.n # np_size(x0)
    THEN sigma_points_raises(g, "ValueError(size)", g.s, <<>>)
    ELSE sigma_points_converted(g, AsArray(x0), AsMatrix(g.n, P0))

\* GeneralizedSigmaPoints.__init__: the object, or the exception that the
\* sigma_points call of a constrained generator raised.
\* The fields once _compute_weights has given cw:
init_fields(n, x, P, S, K, positively_constrained, k, cw) ==
    [cls |-> "Generalized", n |-> n, alpha |-> Zero, beta |-> Zero,
     kappa |-> Zero, x |-> x, P |-> P, S |-> S, K |-> K, k |-> k,
     positively_constrained |-> positively_constrained,
     s |-> cw.s, Wm |-> cw.Wm, Wc |-> cw.Wc]

\* after self.sigma_points(x, P) has given sp
init_called(g0, sp) ==
    [exc |-> sp.exc, g |-> [g0 EXCEPT !.s = sp.s, !.Wm = sp.Wm, !.Wc = sp.Wc],
     inner |-> TRUE, sigmas |-> sp.sigmas, first |-> sp.first]

\* if positively_constrained: self.sigma_points(x, P)
init_constrain(g0) ==
    IF ~g0.positively_constrained
    THEN [exc |-> "none", g |-> g0, inner |-> FALSE, sigmas |-> <<>>,
          first |-> <<>>]
    ELSE init_called(g0, Generalized_sigma_points(g0, g0.x,
                             [kind |-> "matrix", v |-> g0.P]))

\* with x and P made arrays
init_converted(n, x, P, S, K, positively_constrained, k) ==
    init_constrain(init_fields(n, x, P, S, K, positively_constrained, k,
        Generalized_compute_weights(n, P, S, K,
                                    Vec(2 * n + 1, LAMBDA j : Zero), TRUE)))

Generalized_init(n, P0, S, K, positively_constrained, k, x0) ==
    init_converted(n, AsArray(x0), AsMatrix(n, P0), S, K,
                   positively_constrained, k)

\* num_sigmas of the four classes
Merwe_num_sigmas(g) == 2 * g.n + 1
Julier_num_sigmas(g) == 2 * g.n + 1
\* the count of the other three classes
Simplex_num_sigmas_symmetric(g) == 2 * g.n + 1
Simplex_num_sigmas(g) == g.n + 1
Generalized_num_sigmas(g) == 2 * g.n + 1

num_sigmas(g) ==
    CASE g.cls = "Merwe" -> Merwe_num_sigmas(g)
      [] g.cls = "Julier" -> Julier_num_sigmas(g)
      [] g.cls = "Simplex" -> Simplex_num_sigmas(g)
      [] g.cls = "Generalized" -> Generalized_num_sigmas(g)

\* ------------------------------------------------------------------------
\* Inputs
\* ------------------------------------------------------------------------
Dims == 1..MaxN

\* alpha = 1/10 and 1/2 make lambda_ negative (the products of alpha = 1/1000
\* exceed the 32-bit integers of the model checker)
Alphas == {Q(1, 10), Q(1, 2), One}
Betas == {Zero, N(2)}
\* kappa with n + kappa in {0, 1, 3, n}
Kappas(n) == {N(-n), N(1 - n), N(3 - n), Zero}

XVals == {N(i) : i \in 0..MaxX}

\* mean vectors of length n: the constant ones and one with a negative entry
Means(n) ==
    {Vec(n, LAMBDA i : c) : c \in XVals}
    \cup {Vec(n, LAMBDA i : IF i = 1 THEN N(-1) ELSE One)}

\* a mean of one element is passed as a number or a list, a longer one as a
\* list or an ndarray
XKinds(m) == IF m = 1 THEN {"scalar", "list"} ELSE {"list", "ndarray"}

XOfSize(n) == {[kind |-> kd, v |-> v] : kd \in XKinds(n), v \in Means(n)}

\* means whose size is not n
XWrong(n) ==
    {[kind |-> "list", v |-> Vec(n + 1, LAMBDA i : One)]}
    \cup {[kind |-> "ndarray", v |-> Vec(m, LAMBDA i : One)] :
              m \in (2..(n + 1)) \ {n}}
    \cup (IF n > 1 THEN {[kind |-> "scalar", v |-> <<One>>]} ELSE {})

XInputs(n) == XOfSize(n) \cup XWrong(n)

Diagonal(n, d(_)) ==
    Vec(n, LAMBDA i : Vec(n, LAMBDA j : IF i = j THEN d(i) ELSE Zero))

\* the first two coordinates correlated with covariance c
Correlated(n, c) ==
    Vec(n, LAMBDA i : Vec(n, LAMBDA j :
        IF i = j THEN (IF i = 2 THEN N(25) ELSE One)
        ELSE IF {i, j} = {1, 2} THEN c ELSE Zero))

Covariances(n) ==
    {[kind |-> "scalar", v |-> <<<<c>>>>] : c \in {One, N(4)}}
    \cup (IF n > 1
          THEN {[kind |-> "matrix", v |-> Correlated(n, c)] : c \in {N(4), N(-4)}}
          ELSE {})

\* a diagonal covariance on which the simplex points are rational
SimplexCovariances(n) ==
    {[kind |-> "matrix",
      v |-> Diagonal(n, LAMBDA i : N((n + 1) * i * (i + 1)))]}

\* third and fourth central moments: <<S, K>> of one coordinate
SKPairs == {<<0, 1>>, <<0, 3>>, <<-2, 7>>, <<1, 3>>, <<2, 1>>}

Moments(n) ==
    {[S |-> Vec(n, LAMBDA i : N(p[1])), K |-> Vec(n, LAMBDA i : N(p[2]))] :
        p \in SKPairs}
    \cup {[S |-> Vec(n, LAMBDA i : IF i = 1 THEN Zero ELSE One),
           K |-> Vec(n, LAMBDA i : IF i = 1 THEN One ELSE N(3))]}

Slacks == {Q(1, 2), One}

\* ------------------------------------------------------------------------
\* State
\* ------------------------------------------------------------------------
VARIABLES
    gen,    \* the generator object; cls = "None" before a constructor returns
    last    \* the most recent operation: its arguments and its result

vars == <<gen, last>>

\* op: "__init__", "sigma_points" or "num_sigmas"; exc: the exception raised
\* or "none"; cls: the class called; x, P: the arguments of the sigma_points
\* call made (by the caller, or by __init__ when inner); sigmas: the matrix
\* sigma_points returned; count: what num_sigmas returned; args: the
\* arguments <<n, alpha, beta, kappa>> of MerweScaledSigmaPoints.__init__
NoLast ==
    [op |-> "none", cls |-> "None", exc |-> "none", inner |-> FALSE,
     x |-> NoneX, P |-> [kind |-> "matrix", v |-> <<>>], sigmas |-> <<>>,
     count |-> 0, args |-> <<>>]

Init ==
    /\ gen = NoGen
    /\ last = NoLast

\* ------------------------------------------------------------------------
\* Constructors
\* ------------------------------------------------------------------------
MerweInit ==
    /\ gen.cls = "None"
    /\ \E n \in Dims, alpha \in Alphas, beta \in Betas :
       \E kappa \in Kappas(n) :
          \E cw \in {Merwe_compute_weights(n, alpha, beta, kappa)} :
              /\ gen' = IF cw.exc # "none" THEN NoGen
                        ELSE [NoGen EXCEPT !.cls = "Merwe", !.n = n,
                                !.alpha = alpha, !.beta = beta, !.kappa = kappa,
                                !.Wm = cw.Wm, !.Wc = cw.Wc]
              /\ last' = [NoLast EXCEPT !.op = "__init__", !.cls = "Merwe",
                                        !.exc = cw.exc,
                                        !.args = <<n, alpha, beta, kappa>>]

JulierInit ==
    /\ gen.cls = "None"
    /\ \E n \in Dims :
       \E kappa \in Kappas(n) :
          \E cw \in {Julier_compute_weights(n, kappa)} :
              /\ gen' = IF cw.exc # "none" THEN NoGen
                        ELSE [NoGen EXCEPT !.cls = "Julier", !.n = n,
                                !.kappa = kappa, !.Wm = cw.Wm, !.Wc = cw.Wc]
              /\ last' = [NoLast EXCEPT !.op = "__init__", !.cls = "Julier",
                                        !.exc = cw.exc]

SimplexInit ==
    /\ gen.cls = "None"
    /\ \E n \in Dims :
          \E cw \in {Simplex_compute_weights(n)} :
              /\ gen' = [NoGen EXCEPT !.cls = "Simplex", !.n = n, !.alpha = One,
                                      !.Wm = cw.Wm, !.Wc = cw.Wc]
              /\ last' = [NoLast EXCEPT !.op = "__init__", !.cls = "Simplex"]

\* an unconstrained generator may be built without x (None) and is built
\* without k (None, never read, held as zero); a constrained one is given
\* both
GeneralizedInit ==
    /\ gen.cls = "None"
    /\ \E n \in Dims, pc \in BOOLEAN :
       \E P \in Covariances(n), m \in Moments(n),
          k \in IF pc THEN Slacks ELSE {Zero},
          x \in IF pc THEN XOfSize(n)
                 ELSE {NoneX} \cup {x \in XOfSize(n) : x.v[1] = One} :
          \E r \in {Generalized_init(n, P, m.S, m.K, pc, k, x)} :
              /\ RepVec(r.g.s) /\ RepVec(r.g.Wm)
              /\ RepMat(r.sigmas) /\ RepMat(r.first)
              /\ gen' = IF r.exc # "none" THEN NoGen ELSE r.g
              /\ last' = [NoLast EXCEPT !.op = "__init__",
                            !.cls = "Generalized", !.exc = r.exc,
                            !.inner = r.inner,
                            !.x = IF r.inner THEN r.g.x ELSE NoneX,
                            !.P = IF r.inner
                                  THEN [kind |-> "matrix", v |-> r.g.P]
                                  ELSE NoLast.P,
                            !.sigmas = r.sigmas]

\* ------------------------------------------------------------------------
\* sigma_points and num_sigmas
\* ------------------------------------------------------------------------
Called(cls, r, x, P) ==
    [NoLast EXCEPT !.op = "sigma_points", !.cls = cls, !.exc = r.exc,
                   !.x = x, !.P = P, !.sigmas = r.sigmas]

MerweSigmaPoints ==
    /\ gen.cls = "Merwe"
    /\ \E x \in XInputs(gen.n), P \in Covariances(gen.n) :
          \E r \in {Merwe_sigma_points(gen, x, P)} :
              /\ r.exc # "unrep" /\ RepMat(r.sigmas)
              /\ last' = Called("Merwe", r, x, P)
              /\ UNCHANGED gen

JulierSigmaPoints ==
    /\ gen.cls = "Julier"
    /\ \E x \in XInputs(gen.n), P \in Covariances(gen.n) :
          \E r \in {Julier_sigma_points(gen, x, P)} :
              /\ r.exc # "unrep" /\ RepMat(r.sigmas)
              /\ last' = Called("Julier", r, x, P)
              /\ UNCHANGED gen

SimplexSigmaPoints ==
    /\ gen.cls = "Simplex"
    /\ \E x \in XInputs(gen.n),
          P \in Covariances(gen.n) \cup SimplexCovariances(gen.n) :
          \E r \in {Simplex_sigma_points(gen, x, P)} :
              /\ r.exc # "unrep" /\ RepMat(r.sigmas)
              /\ last' = Called("Simplex", r, x, P)
              /\ UNCHANGED gen

GeneralizedSigmaPoints ==
    /\ gen.cls = "Generalized"
    /\ \E x \in XInputs(gen.n), P \in Covariances(gen.n) :
          \E r \in {Generalized_sigma_points(gen, x, P)} :
              /\ RepMat(r.sigmas) /\ RepMat(r.first)
              /\ RepVec(r.s) /\ RepVec(r.Wm)
              /\ last' = Called("Generalized", r, x, P)
              /\ gen' = [gen EXCEPT !.s = r.s, !.Wm = r.Wm, !.Wc = r.Wc]

NumSigmas ==
    /\ gen.cls # "None"
    /\ last' = [NoLast EXCEPT !.op = "num_sigmas", !.cls = gen.cls,
                              !.count = num_sigmas(gen)]
    /\ UNCHANGED gen

Next ==
    \/ MerweInit
    \/ JulierInit
    \/ SimplexInit
    \/ GeneralizedInit
    \/ MerweSigmaPoints
    \/ JulierSigmaPoints
    \/ SimplexSigmaPoints
    \/ GeneralizedSigmaPoints
    \/ NumSigmas

Spec == Init /\ [][Next]_vars

\* ------------------------------------------------------------------------
\* Notions used by the properties
\* ------------------------------------------------------------------------
\* the exact sum of finite numbers: terms are collected by radicand, so the
\* sum is found whenever it is of the form (p/q)*sqrt(r)
ExactSum(v) ==
    IF \E i \in 1..Len(v) : ~IsFinite(v[i]) THEN Sum(v)
    ELSE LET R == {v[i][3] : i \in 1..Len(v)}
             part(r) == Sum(Vec(Len(v), LAMBDA i :
                                IF v[i][3] = r THEN v[i] ELSE Zero))
             nz == {r \in R : ~IsZero(part(r))}
         IN  IF nz = {} THEN Zero
             ELSE IF Cardinality(nz) = 1 THEN part(CHOOSE r \in nz : TRUE)
             ELSE Unrep

\* sum over the rows i of W[i] * sigmas[i]
WeightedMean(W, sigmas) ==
    Vec(Len(sigmas[1]), LAMBDA a :
        ExactSum(Vec(Len(sigmas), LAMBDA i : Mul(W[i], sigmas[i][a]))))

\* sum over the rows i of W[i] * (sigmas[i] - x) (sigmas[i] - x)^T
WeightedCovariance(W, sigmas, x) ==
    Vec(Len(x), LAMBDA a : Vec(Len(x), LAMBDA b :
        ExactSum(Vec(Len(sigmas), LAMBDA i :
            Mul(W[i], Mul(Sub(sigmas[i][a], x[a]), Sub(sigmas[i][b], x[b])))))))

\* the most recent operation ran sigma_points to its return statement
Returned == last.exc = "none" /\ Len(last.sigmas) > 0
\* ... and it was the caller who called it
ReturnedToCaller == last.op = "sigma_points" /\ Returned

\* the mean and the covariance of that call as arrays
CallMean == AsArray(last.x).v
CallCovariance == AsMatrix(gen.n, last.P)

\* the divisors of GeneralizedSigmaPoints._compute_weights are real numbers
\* other than zero
ValidScales(g) ==
    \A i \in 1..g.n :
        LET si == g.s[i + 1]
            sin == g.s[i + 1 + g.n]
        IN  /\ IsFinite(si) /\ IsFinite(sin)
            /\ ~IsZero(si) /\ ~IsZero(sin) /\ ~IsZero(Add(si, sin))

\* every weight of the generator is a real number
FiniteWeights == gen.cls = "Generalized" => ValidScales(gen)

\* the scales of a generator are not the free parameters any more
Redefined(g) ==
    g.s # Generalized_compute_weights(g.n, g.P, g.S, g.K, g.s, TRUE).s

\* 4*K_[i] - 3*S_[i]^2 is negative for some coordinate i
NegativeDiscriminant(g) ==
    \E i \in 1..g.n :
        LET S_ == Generalized_S_(g.P, g.S, i)
            K_ == Generalized_K_(g.P, g.K, i)
        IN  Less(Sub(Mul(N(4), K_), Mul(N(3), Mul(S_, S_))), Zero)

NonNegativeVec(v) == \A i \in 1..Len(v) : ~Less(v[i], Zero)

\* ------------------------------------------------------------------------
\* Properties
\* ------------------------------------------------------------------------
\* C1: the mean weights of a generator sum to one in every reachable state,
\* for each of the four classes, whenever the divisors of the weight
\* formulas are real and not zero; this includes a constrained
\* GeneralizedSigmaPoints after it has redefined its scales.
C1_MeanWeightsSumToOne ==
    (gen.cls # "None" /\ (gen.cls = "Generalized" => ValidScales(gen)))
        => Sum(gen.Wm) = One

C1_Witness ==
    /\ gen.cls = "Generalized" /\ gen.positively_constrained
    /\ ReturnedToCaller /\ Redefined(gen) /\ ValidScales(gen)
    /\ gen.Wm[1] # Zero

\* C2: for each of the four classes, a sigma_points call with a mean whose
\* size is not n raises the dimension-mismatch ValueError and returns no
\* points, whatever the covariance is.
C2_DimensionMismatchRaises ==
    (last.op = "sigma_points" /\ np_size(last.x) # gen.n)
        => (last.exc = "ValueError(size)" /\ last.sigmas = <<>>)

C2_Witness ==
    /\ last.op = "sigma_points" /\ last.cls = "Generalized"
    /\ gen.positively_constrained
    /\ np_size(last.x) = gen.n + 1 /\ last.P.kind = "matrix"
    /\ last.exc = "ValueError(size)"

\* C3: whenever sigma_points returns, the Wm-weighted sum of the returned
\* rows is the mean that was passed.  (Stated for generators whose weights
\* are real numbers: it fails even there.)
C3_WeightedMeanIsMean ==
    (Returned /\ FiniteWeights) =>
        LET m == WeightedMean(gen.Wm, last.sigmas)
        IN  RepVec(m) => m = CallMean

\* C4: whenever sigma_points returns, the Wc-weighted sum of the outer
\* products of (row - mean) is the covariance that was passed.  (Stated for
\* generators whose weights are real numbers and for returned points that
\* are real numbers: it fails even there.)
C4_WeightedCovarianceIsCovariance ==
    (Returned /\ FiniteWeights
        /\ \A i \in 1..Len(last.sigmas) : FiniteVec(last.sigmas[i])) =>
        LET c == WeightedCovariance(gen.Wc, last.sigmas, CallMean)
        IN  RepMat(c) => c = CallCovariance

\* C5: a constrained GeneralizedSigmaPoints called with a mean without
\* negative entries returns no negative entry.  (Stated for the mean and
\* the covariance of the construction and for weights that are real
\* numbers: it fails even there.)
C5_ConstrainedPointsNonNegative ==
    (Returned /\ last.cls = "Generalized" /\ gen.positively_constrained
        /\ NonNegativeVec(CallMean) /\ FiniteWeights
        /\ CallMean = gen.x.v /\ CallCovariance = gen.P)
        => \A i \in 1..Len(last.sigmas) : NonNegativeVec(last.sigmas[i])

\* C6: a constrained GeneralizedSigmaPoints raises when it is called with a
\* mean or with a covariance other than the one it was constructed with.
\* (Stated for weights that are real numbers: it fails even there.)
C6_InconsistentCallFlagged ==
    (last.op = "sigma_points" /\ last.cls = "Generalized"
        /\ gen.positively_constrained /\ np_size(last.x) = gen.n
        /\ FiniteWeights
        /\ (CallMean # gen.x.v \/ CallCovariance # gen.P))
        => last.exc # "none"

\* C7: an unconstrained GeneralizedSigmaPoints built without x returns 2n+1
\* points for every mean of size n.
C7_UnconstrainedReturns ==
    (last.op = "sigma_points" /\ last.cls = "Generalized"
        /\ ~gen.positively_constrained /\ gen.x = NoneX
        /\ np_size(last.x) = gen.n)
        => (last.exc = "none" /\ Len(last.sigmas) = 2 * gen.n + 1)

\* C8: no GeneralizedSigmaPoints object exists whose moments give a negative
\* discriminant: its construction raises.
C8_NegativeDiscriminantRejected ==
    gen.cls = "Generalized" => ~NegativeDiscriminant(gen)

\* C9 as stated: row 0 of every returned matrix is the mean that was passed,
\* for SimplexSigmaPoints too.
C9_RowZeroIsMean ==
    Returned => last.sigmas[1] = CallMean

\* C9 amended: row 0 of a matrix returned by MerweScaledSigmaPoints,
\* JulierSigmaPoints or GeneralizedSigmaPoints is the mean that was passed;
\* row 0 of a matrix returned by SimplexSigmaPoints is not: its first entry
\* is x[0] - sqrt(P[0][0]) * sqrt((n+1)/2).
C9_RowZeroIsMeanUnlessSimplex ==
    Returned =>
        IF last.cls = "Simplex"
        THEN last.sigmas[1][1] =
                Sub(CallMean[1], Mul(Sqrt(CallCovariance[1][1]),
                                     Sqrt(Q(gen.n + 1, 2))))
             /\ last.sigmas[1] # CallMean
        ELSE last.sigmas[1] = CallMean

C9_Witness ==
    /\ ReturnedToCaller /\ last.cls = "Simplex" /\ gen.n > 1
    /\ last.P.kind = "matrix" /\ CallMean[1] # Zero

\* the call is made with the mean and the covariance of the construction
ConstructionInputs(x, P) ==
    /\ gen.x.kind # "None"
    /\ np_size(x) = gen.n
    /\ AsArray(x).v = gen.x.v
    /\ AsMatrix(gen.n, P) = gen.P

\* the constrained generator is as its constructor left it
AsConstructed ==
    gen = Generalized_init(gen.n, [kind |-> "matrix", v |-> gen.P], gen.S,
                           gen.K, TRUE, gen.k, gen.x).g

\* C10: num_sigmas returns 2n+1 (n+1 for SimplexSigmaPoints); Wm and Wc have
\* that many entries in every state, and every returned matrix has that many
\* rows of n entries.
NumPoints(g) == IF g.cls = "Simplex" THEN g.n + 1 ELSE 2 * g.n + 1

C11_SigmaPointsKeepsGenerator ==
    [][\/ gen' = gen
       \/ ~(/\ gen.cls # "None" /\ last'.op = "sigma_points"
            /\ (gen.cls = "Generalized" /\ gen.positively_constrained
                   => ConstructionInputs(last'.x, last'.P) /\ AsConstructed))]_vars

C11_Witness ==
    /\ gen.cls = "Generalized" /\ gen.positively_constrained
    /\ ReturnedToCaller /\ ConstructionInputs(last.x, last.P)
    /\ AsConstructed /\ Redefined(gen) /\ ValidScales(gen) /\ gen.n > 1

\* C12: with lambda = alpha^2 (n + kappa) - n and d = n + lambda:
\* constructing a MerweScaledSigmaPoints with d # 0 raises nothing, also
\* when lambda is negative; and in every state of a MerweScaledSigmaPoints
\* 2 d Wm[i] = 2 d Wc[i] = 1 for i in 1..2n, d Wm[0] = lambda and
\* Wc[0] - Wm[0] = 1 - alpha^2 + beta.
ClaimedLambda(n, alpha, kappa) ==
    Sub(Mul(Mul(alpha, alpha), Add(N(n), kappa)), N(n))

MerweWeightsAsClaimed(g, d) ==
    /\ Len(g.Wm) = 2 * g.n + 1 /\ Len(g.Wc) = 2 * g.n + 1
    /\ \A i \in 2..(2 * g.n + 1) :
          /\ Mul(N(2), Mul(d, g.Wm[i])) = One
          /\ Mul(N(2), Mul(d, g.Wc[i])) = One
    /\ Mul(d, g.Wm[1]) = ClaimedLambda(g.n, g.alpha, g.kappa)
    /\ Sub(g.Wc[1], g.Wm[1]) = Add(Sub(One, Mul(g.alpha, g.alpha)), g.beta)

C12_MerweWeights ==
    /\ (last.op = "__init__" /\ last.cls = "Merwe"
          /\ ~IsZero(Add(N(last.args[1]),
                         ClaimedLambda(last.args[1], last.args[2], last.args[4]))))
        => /\ last.exc = "none" /\ gen.cls = "Merwe"
           /\ <<gen.n, gen.alpha, gen.beta, gen.kappa>> = last.args
    /\ gen.cls = "Merwe"
        => MerweWeightsAsClaimed(gen,
               Add(N(gen.n), ClaimedLambda(gen.n, gen.alpha, gen.kappa)))

C12_Witness ==
    /\ last.op = "__init__" /\ last.exc = "none" /\ gen.cls = "Merwe"
    /\ gen.n = 1 /\ gen.alpha = Q(1, 10) /\ gen.beta = N(2)
    /\ gen.kappa = Zero
    /\ Less(ClaimedLambda(gen.n, gen.alpha, gen.kappa), Zero)
    /\ gen.Wc[1] # gen.Wm[1]

\* C13: a sigma_points call of a constrained GeneralizedSigmaPoints that is
\* as its constructor left it, with the mean and the covariance of its
\* construction, raises nothing and returns 2n+1 points.  (Stated for
\* weights that are real numbers, for a mean without negative entries and
\* for the very argument x that the constructor stored: it fails even
\* there.)
C13_LaterCallReturns ==
    (last.op = "sigma_points" /\ last.cls = "Generalized"
        /\ gen.positively_constrained /\ FiniteWeights
        /\ AsArray(last.x) = gen.x /\ CallCovariance = gen.P
        /\ NonNegativeVec(CallMean) /\ AsConstructed)
        => (last.exc = "none" /\ Len(last.sigmas) = 2 * gen.n + 1)

====
